---- MODULE Spec2Model ----
(***************************************************************************)
(* Collector of src/main.py: discover_targets, device_task (one task per   *)
(* discovered device), the notification handler and collector_main, run by *)
(* asyncio.run in a background thread while the GUI thread owns the stop   *)
(* event.  Strings the code transforms (addresses, names, UUIDs, paths)    *)
(* are sequences of one-character strings, so that replace(), upper(),     *)
(* lower() and `in` are computed character by character.                   *)
(***************************************************************************)
EXTENDS Integers, Sequences, FiniteSets, TLC

\* ------------------------------------------------------------------ bounds
\* iterations of the scan loop (the code runs int(timeout * 10) of them)
ScanPolls == 1
\* notifications delivered over the whole run
MaxNotifs == 2

\* operations applied to one log file when the header step is studied alone
MaxOps == 4
\* bytes of the longest payload given to decode_thv when it is studied alone
MaxLen == 6
\* ------------------------------------------------------- string primitives
Lowers == <<"a","b","c","d","e","f","g","h","i","j","k","l","m",
            "n","o","p","q","r","s","t","u","v","w","x","y","z">>
Uppers == <<"A","B","C","D","E","F","G","H","I","J","K","L","M",
            "N","O","P","Q","R","S","T","U","V","W","X","Y","Z">>

\* str.upper(), one character
UpperChar(c) ==
    IF \E k \in 1..26 : Lowers[k] = c
    THEN Uppers[CHOOSE k \in 1..26 : Lowers[k] = c]
    ELSE c

\* str.lower(), one character
LowerChar(c) ==
    IF \E k \in 1..26 : Uppers[k] = c
    THEN Lowers[CHOOSE k \in 1..26 : Uppers[k] = c]
    ELSE c

Upper(s) == [k \in 1..Len(s) |-> UpperChar(s[k])]
Lower(s) == [k \in 1..Len(s) |-> LowerChar(s[k])]

\* str.replace(a, b) for one-character a and b
Replace(s, a, b) == [k \in 1..Len(s) |-> IF s[k] = a THEN b ELSE s[k]]

\* `kw in name`
Contains(name, kw) ==
    \E k \in 0..(Len(name) - Len(kw)) : SubSeq(name, k + 1, k + Len(kw)) = kw

\* address.replace("-", ":").upper()
Normalize(address) == Upper(Replace(address, "-", ":"))

\* ---------------------------------------------------------- configuration
ADDR_OUTSIDE == <<"A","4",":","C","1",":","3","8",":","D","D",":","A","C",":","A","7">>
ADDR_INSIDE == <<"A","4",":","C","1",":","3","8",":","B","9",":","7","4",":","3","C">>

KNOWN_ADDRS == {Normalize(a) : a \in {ADDR_OUTSIDE, ADDR_INSIDE}}

NAME_INSIDE == <<"L","a","b"," ","i","n","s","i","d","e">>
NAME_OUTSIDE == <<"L","a","b"," ","o","u","t","s","i","d","e">>

\* one display name for both known addresses
DISPLAY_NAMES_Same(addr) ==
    IF addr \in {ADDR_INSIDE, ADDR_OUTSIDE} THEN NAME_INSIDE ELSE addr
\* DISPLAY_NAMES.get(addr, addr)
DISPLAY_NAMES(addr) ==
    IF addr = ADDR_INSIDE THEN NAME_INSIDE
    ELSE IF addr = ADDR_OUTSIDE THEN NAME_OUTSIDE
    ELSE addr

TARGET_NAME_KEYWORDS ==
    { <<"L","Y","W","S","D","0","3","M","M","C">>,
      <<"M","J","_","H","T","_","V","1">>,
      <<"X","i","a","o","m","i">> }

TARGET_COUNT == 2

RECONNECT_DELAY_SECONDS == 5

\* asyncio.sleep(1.0) after the connection is made
SETTLE_SECONDS == 1

\* asyncio.sleep(1.0) of the listen loop
POLL_SECONDS == 1

UUID_TH_NOTIFY ==
    <<"e","b","e","0","c","c","c","1","-","7","a","0","a","-","4","b","0","c","-",
      "8","a","1","a","-","6","f","f","2","9","9","7","d","a","3","a","6">>

LOG_DIR == <<"l","o","g","s">>

\* the row written by device_task when it creates the file
Header == <<"timestamp_iso", "temperature_c", "humidity_pct", "voltage_mv", "battery_pct">>

\* the rows read_tail keeps
ROLLING_POINTS == 600
\* ----------------------------------------------------------------- decoder
\* voltages whose percentage is an exact half and that the binary floating
\* point expression of battery_percent_from_mv rounds upwards; every other
\* exact half is rounded downwards by it
TiesRoundedUp ==
    { 2115, 2245, 2265, 2285, 2305, 2325, 2345, 2365, 2435, 2455, 2475,
      2495, 2515, 2535, 2555, 2575, 2595, 2615, 2825, 2845, 2865, 2895,
      2915, 2935, 2955, 2975, 2995, 3015, 3035, 3055, 3075, 3095 }

Max(a, b) == IF a >= b THEN a ELSE b
Min(a, b) == IF a <= b THEN a ELSE b

\* the percentage without the clamp to 0..100
battery_percent_from_mv_Unclamped(mv) ==
    LET n == mv - 2100
        q == n \div 10
        r == n % 10
    IN  IF r > 5 \/ (r = 5 /\ mv \in TiesRoundedUp) THEN q + 1 ELSE q
battery_percent_from_mv(mv) ==
    LET n == mv - 2100
        q == n \div 10
        r == n % 10
        pct == IF r > 5 \/ (r = 5 /\ mv \in TiesRoundedUp) THEN q + 1 ELSE q
    IN  Max(0, Min(100, pct))

\* the value decode_thv returns for a payload shorter than five bytes
None == <<>>

\* the two bytes read most significant first
LE16_BigEndian(lo, hi) == 256 * lo + hi
\* int.from_bytes(b, "little", signed=False) for two bytes
LE16(lo, hi) == lo + 256 * hi

\* decode_thv with the length test off by one: the slice of a four-byte
\* payload yields the one byte there is
decode_thv_FourBytes(payload) ==
    IF Len(payload) < 4 THEN None
    ELSE LET mv == LE16(payload[4], IF Len(payload) >= 5 THEN payload[5] ELSE 0)
         IN  << LE16(payload[1], payload[2]), payload[3], mv,
                battery_percent_from_mv(mv) >>

\* decode_thv: the temperature is kept in hundredths of a degree
decode_thv(payload) ==
    IF Len(payload) < 5 THEN None
    ELSE LET mv == LE16(payload[4], payload[5])
         IN  << LE16(payload[1], payload[2]), payload[3], mv,
                battery_percent_from_mv(mv) >>

\* ------------------------------------------------------------- environment
\* advertisements the scanner can deliver: [address, name]; a missing or
\* empty name is the empty sequence (bool(name) is false for both)
NoName == <<>>

Adverts ==
    { \* a known address in lower case with hyphens, under a keyword name
      [address |-> <<"a","4","-","c","1","-","3","8","-","d","d","-","a","c","-","a","7">>,
       name |-> <<"L","Y","W","S","D","0","3","M","M","C">>],
      \* a known address without a name
      [address |-> ADDR_INSIDE, name |-> NoName],
      \* a stranger
      [address |-> <<"A","A",":","B","B",":","C","C",":","D","D",":","E","E",":","F","F">>,
       name |-> <<"P","h","o","n","e">>] }

\* notification payloads: one byte short, and the frame of a real reading
Payloads == { <<46, 9, 55, 171>>, <<46, 9, 55, 171, 11>> }

\* the GATT tables a connected device can expose: a set of services, each a
\* set of characteristics [uuid, properties]
GattTables ==
    { \* the expected characteristic, notifying, beside another service
      { { [uuid |-> UUID_TH_NOTIFY, properties |-> {"read", "notify"}] },
        { [uuid |-> <<"2","a","1","9">>, properties |-> {"read"}] } },
      \* the expected identifier in capitals but without notify or indicate,
      \* and indicate under another identifier
      { { [uuid |-> Upper(UUID_TH_NOTIFY), properties |-> {"read", "write"}] },
        { [uuid |-> <<"2","a","1","9">>, properties |-> {"indicate"}] } } }

NoServices == {}

\* -------------------------------------------------------------- log files
\* _friendly_csv_path_for_addr
friendly_csv_path_for_addr(addr_colon) ==
    LOG_DIR \o <<"/">> \o Replace(DISPLAY_NAMES(addr_colon), " ", "_")
            \o <<".","c","s","v">>

\* match_target
match_target(name, address) ==
    LET addr_ok == IF KNOWN_ADDRS # {} THEN Normalize(address) \in KNOWN_ADDRS
                   ELSE FALSE
        name_ok == name # NoName /\ \E kw \in TARGET_NAME_KEYWORDS : Contains(name, kw)
    IN  addr_ok \/ name_ok

NoFile == [exists |-> FALSE, rows |-> <<>>]

\* f"{t_c:.2f}" for t_c = centi / 100.0
Fixed2(centi) ==
    ToString(centi \div 100) \o "." \o
    (IF centi % 100 < 10 THEN "0" ELSE "") \o ToString(centi % 100)

\* isoformat of the wall clock
Iso(t) == "T" \o ToString(t)

\* the row the handler writes: [now_iso, f"{t_c:.2f}", str(int(rh)), str(mv), str(pct)]
Row(now_iso, parsed) ==
    << now_iso, Fixed2(parsed[1]), ToString(parsed[2]), ToString(parsed[3]),
       ToString(parsed[4]) >>

\* what a path can hold before the collector starts: nothing, an empty
\* file, or a log of an earlier run
EarlierFiles ==
    { NoFile,
      [exists |-> TRUE, rows |-> <<>>],
      [exists |-> TRUE, rows |-> <<Header, Row(Iso(0), <<2210, 40, 3001, 90>>)>>] }

\* ------------------------------------------------------------------- state
VARIABLES
    stop,        \* stop_event.is_set()
    orch,        \* where collector_main is
    found,       \* discover_targets: the dict found, in insertion order
    polls,       \* discover_targets: iterations of the scan loop done
    devices,     \* the list discover_targets returned
    pc,          \* per task: where device_task is
    client,      \* per task: the BleakClient session
    services,    \* per task: client.services of the session
    subscribed,  \* per task: start_notify returned in this session
    files,       \* the files under LOG_DIR that device_task has looked at, by path
    clock,       \* the wall clock read by the handler
    fresh,       \* per task: csv_path was absent when device_task started
    hist,        \* per task: the notifications handled, with their outcome
    timer,       \* per task: seconds left of the asyncio.sleep it is in
    sinceStop,   \* seconds gone by since stop_event was set
    input,       \* what a function studied on its own was called with
    output       \* what it returned

\* timer and sinceStop move only where time is followed (TimedSpec), input
\* and output only where one function is studied on its own
aux == << timer, sinceStop, input, output >>

vars == << stop, orch, found, polls, devices, pc, client, services,
           subscribed, files, clock, fresh, hist, timer, sinceStop,
           input, output >>

Tasks == DOMAIN pc

Active == {"Connecting", "Verifying", "Subscribing", "Listening", "Backoff"}

\* device_task has ended: by return or break, by an exception that left
\* it, or by cancellation
Terminated(i) == pc[i] \in {"Stopped", "Failed", "Cancelled"}

addr_colon(i) == Normalize(devices[i].address)
csv_path(i) == friendly_csv_path_for_addr(addr_colon(i))

Init ==
    /\ stop = FALSE
    /\ orch = "Discover"
    /\ found = <<>>
    /\ polls = 0
    /\ devices = <<>>
    /\ pc = <<>>
    /\ client = <<>>
    /\ services = <<>>
    /\ subscribed = <<>>
    /\ files = <<>>
    /\ clock = 1
    /\ fresh = <<>>
    /\ hist = <<>>
    /\ timer = <<>>
    /\ sinceStop = 0
    /\ input = <<>>
    /\ output = <<>>

\* ---------------------------------------------------------------- the GUI
\* App._on_close: stop_event.set()
SetStop ==
    /\ ~stop
    /\ stop' = TRUE
    /\ UNCHANGED << orch, found, polls, devices, pc, client, services,
                    subscribed, files, clock, fresh, hist, aux >>

\* --------------------------------------------------------------- discovery
\* a list in place of the dict: every match is one more entry
DictSet_List(dict, key, value) == Append(dict, [key |-> key, value |-> value])
\* found[addr] = d: an existing key keeps its place, a new one goes last
DictSet(dict, key, value) ==
    IF \E k \in 1..Len(dict) : dict[k].key = key
    THEN [k \in 1..Len(dict) |->
            IF dict[k].key = key THEN [key |-> key, value |-> value] ELSE dict[k]]
    ELSE Append(dict, [key |-> key, value |-> value])

\* list(found.values())
DictValues(dict) == [k \in 1..Len(dict) |-> dict[k].value]

\* the return without the slice
Take_All(list, want) == list
\* devices[:want]
Take(list, want) == SubSeq(list, 1, Min(want, Len(list)))

\* the detection callback cb(d, adv); it runs until scanner.stop() returns
cb(d) ==
    /\ orch \in {"Discover", "ScanStop"}
    /\ LET addr == Upper(Replace(d.address, "-", ":"))
       IN  found' = IF match_target(d.name, addr) THEN DictSet(found, addr, d)
                    ELSE found
    /\ UNCHANGED << stop, orch, polls, devices, pc, client, services,
                    subscribed, files, clock, fresh, hist, aux >>

\* one iteration of the scan loop: break, sleep, or run out of iterations;
\* leaving the loop awaits scanner.stop()
ScanPoll(want) ==
    /\ orch = "Discover"
    /\ IF Len(found) >= want \/ polls >= ScanPolls
       THEN orch' = "ScanStop" /\ polls' = polls
       ELSE orch' = orch /\ polls' = polls + 1
    /\ UNCHANGED << stop, found, devices, pc, client, services, subscribed,
                    files, clock, fresh, hist, aux >>

\* collector_main after discover_targets returned devices[:want]: return if
\* there is none, else create one task per device and await gather
Spawn(want) ==
    /\ orch = "ScanStop"
    /\ LET result == Take(DictValues(found), want)
           n == Len(result)
       IN  /\ devices' = result
           /\ orch' = IF n = 0 THEN "Returned" ELSE "Gather"
           /\ pc' = [i \in 1..n |-> "Start"]
           /\ client' = [i \in 1..n |-> "none"]
           /\ services' = [i \in 1..n |-> NoServices]
           /\ subscribed' = [i \in 1..n |-> FALSE]
           /\ fresh' = [i \in 1..n |-> FALSE]
           /\ hist' = [i \in 1..n |-> <<>>]
    /\ found' = <<>>
    /\ polls' = 0
    /\ UNCHANGED << stop, files, clock, aux >>

\* -------------------------------------------------------------- device_task
\* a task is resumed only after every task has run its first step (the event
\* loop runs them in creation order), and while collector_main awaits gather:
\* once asyncio.run cancels the tasks, the next thing a task sees is the
\* cancellation
Resumable == orch = "Gather" /\ \A j \in Tasks : pc[j] # "Start"

\* `while not stop_event.is_set()` at the top of the loop: leave, or enter
\* BleakClient(...) and await the connection
LoopTop == IF stop THEN "Stopped" ELSE "Connecting"

\* the test that guards `with open(csv_path, "w")`
NeedsHeader(file) == ~file.exists

\* `if not os.path.exists(csv_path)`: open for writing and write the header
\* row, when nothing raises
HeaderInit(file) ==
    IF NeedsHeader(file) THEN [exists |-> TRUE, rows |-> <<Header>>] ELSE file

\* the file system with path holding file
Store(path, file) ==
    [p \in DOMAIN files \cup {path} |-> IF p = path THEN file ELSE files[p]]

\* first step of device_task: makedirs, header, then the top of the loop.
\* makedirs and open are outside the try block: an OSError leaves the task.
\* What csv_path held before the run is drawn here, where it is first read
Startup(i) ==
    /\ orch = "Gather"
    /\ pc[i] = "Start"
    /\ \A j \in 1..(i - 1) : pc[j] # "Start"
    /\ \E earlier \in IF csv_path(i) \in DOMAIN files THEN {files[csv_path(i)]}
                      ELSE EarlierFiles :
       \E makedirs_ok \in BOOLEAN, open_ok \in BOOLEAN :
         /\ fresh' = [fresh EXCEPT ![i] = ~earlier.exists]
         /\ IF ~makedirs_ok \/ (NeedsHeader(earlier) /\ ~open_ok)
            THEN /\ pc' = [pc EXCEPT ![i] = "Failed"]
                 /\ files' = Store(csv_path(i), earlier)
            ELSE /\ pc' = [pc EXCEPT ![i] = LoopTop]
                 /\ files' = Store(csv_path(i), HeaderInit(earlier))
    /\ UNCHANGED << stop, orch, found, polls, devices, client, services,
                    subscribed, clock, hist, aux >>

\* the asyncio.sleep a task is in when it is at `state`
SleepOf(state) ==
    CASE state = "Verifying" -> SETTLE_SECONDS
      [] state = "Listening" -> POLL_SECONDS
      [] state = "Backoff" -> RECONNECT_DELAY_SECONDS
      [] OTHER -> 0

\* the step of task i ends in an await: where time is followed (the task has
\* a timer), the sleep of the state it enters starts
Sleeps(i) ==
    timer' = IF i \in DOMAIN timer THEN [timer EXCEPT ![i] = SleepOf(pc'[i])]
             ELSE timer

\* the sleep of task i is over
Awake(i) == i \in DOMAIN timer => timer[i] = 0

\* the handler of the exception without the exit of `async with`: the
\* session is left open
Except_KeepsSession(i) ==
    /\ UNCHANGED << client, services, subscribed >>
    /\ pc' = [pc EXCEPT ![i] = IF stop THEN "Stopped" ELSE "Backoff"]
\* `except Exception` of the loop, reached through the exit of `async with`
\* when a session was open: break if stopped, else sleep the reconnect delay
Except(i) ==
    /\ client' = [client EXCEPT ![i] = "none"]
    /\ services' = [services EXCEPT ![i] = NoServices]
    /\ subscribed' = [subscribed EXCEPT ![i] = FALSE]
    /\ pc' = [pc EXCEPT ![i] = IF stop THEN "Stopped" ELSE "Backoff"]

\* the connection is made and reports is_connected: sleep one second
ConnectOK(i) ==
    /\ pc[i] = "Connecting" /\ Resumable
    /\ client' = [client EXCEPT ![i] = "connected"]
    /\ \E table \in GattTables : services' = [services EXCEPT ![i] = table]
    /\ pc' = [pc EXCEPT ![i] = "Verifying"]
    /\ Sleeps(i)
    /\ UNCHANGED << stop, orch, found, polls, devices, subscribed, files,
                    clock, fresh, hist,
                    sinceStop, input, output >>

\* the connection fails or times out, or is_connected is false
ConnectFail(i) ==
    /\ pc[i] = "Connecting" /\ Resumable
    /\ Except(i)
    /\ Sleeps(i)
    /\ UNCHANGED << stop, orch, found, polls, devices, files, clock, fresh, hist,
                    sinceStop, input, output >>

\* the test of client.services without the test of the properties
HasNotifyChar_UuidOnly(table) ==
    \E s \in table : \E ch \in s : Lower(ch.uuid) = UUID_TH_NOTIFY

\* the test of client.services
HasNotifyChar(table) ==
    \E s \in table : \E ch \in s :
        /\ Lower(ch.uuid) = UUID_TH_NOTIFY
        /\ ("notify" \in ch.properties \/ "indicate" \in ch.properties)

\* after the sleep: raise if the characteristic is missing, else call start_notify
Verify(i) ==
    /\ pc[i] = "Verifying" /\ Resumable /\ Awake(i)
    /\ IF HasNotifyChar(services[i])
       THEN /\ pc' = [pc EXCEPT ![i] = "Subscribing"]
            /\ UNCHANGED << client, services, subscribed >>
       ELSE Except(i)
    /\ Sleeps(i)
    /\ UNCHANGED << stop, orch, found, polls, devices, files, clock, fresh, hist,
                    sinceStop, input, output >>

\* leaving the listen loop on stop: stop_notify (its failure swallowed),
\* return, and the exit of `async with` disconnects
StopSession(i) ==
    /\ client' = [client EXCEPT ![i] = "none"]
    /\ services' = [services EXCEPT ![i] = NoServices]
    /\ subscribed' = [subscribed EXCEPT ![i] = FALSE]
    /\ pc' = [pc EXCEPT ![i] = "Stopped"]

\* start_notify returns: enter the listen loop
SubscribeOK(i) ==
    /\ pc[i] = "Subscribing" /\ Resumable
    /\ client[i] = "connected"
    /\ IF stop
       THEN StopSession(i)
       ELSE /\ subscribed' = [subscribed EXCEPT ![i] = TRUE]
            /\ pc' = [pc EXCEPT ![i] = "Listening"]
            /\ UNCHANGED << client, services >>
    /\ Sleeps(i)
    /\ UNCHANGED << stop, orch, found, polls, devices, files, clock, fresh, hist,
                    sinceStop, input, output >>

\* start_notify raises
SubscribeFail(i) ==
    /\ pc[i] = "Subscribing" /\ Resumable
    /\ Except(i)
    /\ Sleeps(i)
    /\ UNCHANGED << stop, orch, found, polls, devices, files, clock, fresh, hist,
                    sinceStop, input, output >>

\* a listen loop that never looks at the stop event
ListenExit_Never == FALSE

\* what ends the wait of the listen loop
ListenExit == stop

\* `while not stop_event.is_set(): await asyncio.sleep(1.0)`
ListenPoll(i) ==
    /\ pc[i] = "Listening" /\ Resumable /\ Awake(i)
    /\ IF ListenExit
       THEN StopSession(i)
       ELSE UNCHANGED << pc, client, services, subscribed >>
    /\ Sleeps(i)
    /\ UNCHANGED << stop, orch, found, polls, devices, files, clock, fresh, hist,
                    sinceStop, input, output >>

\* the reconnect delay is over: back to the top of the loop
BackoffDone(i) ==
    /\ pc[i] = "Backoff" /\ Resumable /\ Awake(i)
    /\ pc' = [pc EXCEPT ![i] = LoopTop]
    /\ Sleeps(i)
    /\ UNCHANGED << stop, orch, found, polls, devices, client, services,
                    subscribed, files, clock, fresh, hist,
                    sinceStop, input, output >>

\* the radio link of an open session drops; no callback is registered for it
LinkDrop(i) ==
    /\ client[i] = "connected"
    /\ client' = [client EXCEPT ![i] = "dropped"]
    /\ UNCHANGED << stop, orch, found, polls, devices, pc, services,
                    subscribed, files, clock, fresh, hist, aux >>

\* the row written with mode "w" instead of "a"
AppendRow_Truncating(file, row) == [exists |-> TRUE, rows |-> <<row>>]

\* a row written cell by cell, as a reader finds it after the third cell
AppendRow_Partial(file, row) ==
    [exists |-> TRUE, rows |-> Append(file.rows, SubSeq(row, 1, 3))]
\* open(csv_path, "a") and writerow
AppendRow(file, row) == [exists |-> TRUE, rows |-> Append(file.rows, row)]

\* the handler found the payload undecodable: print it and return
Undecoded(i, now_iso, data) ==
    /\ files' = files
    /\ hist' = [hist EXCEPT ![i] = Append(@, <<now_iso, data, "undecoded">>)]
    /\ UNCHANGED << pc, client, services, subscribed >>

\* the handler appended the row
Written(i, now_iso, data, parsed) ==
    /\ files' = [files EXCEPT ![csv_path(i)] = AppendRow(@, Row(now_iso, parsed))]
    /\ hist' = [hist EXCEPT ![i] = Append(@, <<now_iso, data, "written">>)]
    /\ UNCHANGED << pc, client, services, subscribed >>

\* the write without its try: the error ends the session
WriteFailed_Raises(i, now_iso, data) ==
    /\ files' = files
    /\ hist' = [hist EXCEPT ![i] = Append(@, <<now_iso, data, "write failed">>)]
    /\ Except(i)

\* open or writerow raised inside the handler's try: print and go on
WriteFailed(i, now_iso, data) ==
    /\ files' = files
    /\ hist' = [hist EXCEPT ![i] = Append(@, <<now_iso, data, "write failed">>)]
    /\ UNCHANGED << pc, client, services, subscribed >>

\* handler(_sender, data), called for a notification of a live subscription
handler(i, data) ==
    /\ pc[i] = "Listening" /\ Resumable
    /\ subscribed[i] /\ client[i] = "connected"
    /\ clock <= MaxNotifs
    /\ clock' = clock + 1
    /\ LET now_iso == Iso(clock)
           parsed == decode_thv(data)
       IN  IF parsed = None
           THEN Undecoded(i, now_iso, data)
           ELSE \E write_ok \in BOOLEAN :
                  IF write_ok THEN Written(i, now_iso, data, parsed)
                  ELSE WriteFailed(i, now_iso, data)
    /\ UNCHANGED << stop, orch, found, polls, devices, fresh, aux >>

\* ------------------------------------------------------------ collector_main
\* a wait that returns when the first task has returned
GatherComplete_First == \E i \in Tasks : pc[i] = "Stopped"

\* what gather waits for before it returns normally
GatherComplete == \A i \in Tasks : pc[i] = "Stopped"

\* await asyncio.gather(*tasks) returns: collector_main returns
GatherDone ==
    /\ orch = "Gather"
    /\ GatherComplete
    /\ orch' = "Returned"
    /\ UNCHANGED << stop, found, polls, devices, pc, client, services,
                    subscribed, files, clock, fresh, hist, aux >>

\* gather passes on the first exception of a task: collector_main catches
\* only CancelledError, so the exception leaves it and asyncio.run
GatherRaise ==
    /\ orch = "Gather"
    /\ \A j \in Tasks : pc[j] # "Start"
    /\ \E i \in Tasks : pc[i] = "Failed"
    /\ orch' = "Failed"
    /\ UNCHANGED << stop, found, polls, devices, pc, client, services,
                    subscribed, files, clock, fresh, hist, aux >>

\* asyncio.run cancels the tasks still pending once its main coroutine has
\* ended; CancelledError is not an Exception, so it leaves device_task
\* through the exit of `async with`
Cancel(i) ==
    /\ orch = "Failed"
    /\ pc[i] \in Active
    /\ client' = [client EXCEPT ![i] = "none"]
    /\ services' = [services EXCEPT ![i] = NoServices]
    /\ subscribed' = [subscribed EXCEPT ![i] = FALSE]
    /\ pc' = [pc EXCEPT ![i] = "Cancelled"]
    /\ UNCHANGED << stop, orch, found, polls, devices, files, clock, fresh, hist, aux >>

\* ------------------------------------------------------------ specification
TaskStep(i) ==
    \/ Startup(i)
    \/ ConnectOK(i)
    \/ ConnectFail(i)
    \/ Verify(i)
    \/ SubscribeOK(i)
    \/ SubscribeFail(i)
    \/ ListenPoll(i)
    \/ BackoffDone(i)
    \/ Cancel(i)

Next ==
    \/ SetStop
    \/ \E d \in Adverts : cb(d)
    \/ ScanPoll(TARGET_COUNT)
    \/ Spawn(TARGET_COUNT)
    \/ \E i \in Tasks : Startup(i)
    \/ \E i \in Tasks : ConnectOK(i)
    \/ \E i \in Tasks : ConnectFail(i)
    \/ \E i \in Tasks : Verify(i)
    \/ \E i \in Tasks : SubscribeOK(i)
    \/ \E i \in Tasks : SubscribeFail(i)
    \/ \E i \in Tasks : ListenPoll(i)
    \/ \E i \in Tasks : BackoffDone(i)
    \/ \E i \in Tasks : Cancel(i)
    \/ \E i \in Tasks : LinkDrop(i)
    \/ \E i \in Tasks : \E data \in Payloads : handler(i, data)
    \/ GatherDone
    \/ GatherRaise

Spec == Init /\ [][Next]_vars

\* every task that can take a step eventually takes it, and so do gather
\* and the scan loop: the event loop runs whatever is ready
FairSpec ==
    /\ Spec
    /\ \A i \in 1..TARGET_COUNT : WF_vars(i \in Tasks /\ TaskStep(i))
    /\ WF_vars(ScanPoll(TARGET_COUNT))
    /\ WF_vars(Spawn(TARGET_COUNT))
    /\ WF_vars(GatherDone)
    /\ WF_vars(GatherRaise)


\* ------------------------------------------- the header step, run and rerun
\* The header step of device_task (lines 110-114) run again and again on one
\* path, as every start of the collector does, with the handler's appends in
\* between. input is the file found at first and the operations applied
\* since, output the file as it is now.
HeaderRun ==
    /\ input # <<>> /\ Len(input.ops) < MaxOps
    /\ \E ok \in BOOLEAN :
         /\ output' = IF ok THEN HeaderInit(output) ELSE output
         /\ input' = [input EXCEPT !.ops =
                         Append(@, [op |-> IF ok THEN "header" ELSE "raised",
                                    row |-> <<>>])]
    /\ UNCHANGED << stop, orch, found, polls, devices, pc, client, services,
                    subscribed, files, clock, fresh, hist, timer, sinceStop >>

\* the handler appends a row; it exists only once the header step has passed
AppendRun ==
    /\ input # <<>> /\ Len(input.ops) < MaxOps
    /\ \E k \in 1..Len(input.ops) : input.ops[k].op = "header"
    /\ \E data \in Payloads :
         /\ decode_thv(data) # None
         /\ LET row == Row(Iso(Len(input.ops)), decode_thv(data))
            IN  /\ output' = AppendRow(output, row)
                /\ input' = [input EXCEPT !.ops = Append(@, [op |-> "append", row |-> row])]
    /\ UNCHANGED << stop, orch, found, polls, devices, pc, client, services,
                    subscribed, files, clock, fresh, hist, timer, sinceStop >>

HeaderSpecInit ==
    /\ stop = FALSE /\ orch = "Discover" /\ found = <<>> /\ polls = 0
    /\ devices = <<>> /\ pc = <<>> /\ client = <<>> /\ services = <<>>
    /\ subscribed = <<>> /\ files = <<>> /\ clock = 1 /\ fresh = <<>>
    /\ hist = <<>> /\ timer = <<>> /\ sinceStop = 0
    /\ \E earlier \in EarlierFiles :
         /\ input = [first |-> earlier, ops |-> <<>>]
         /\ output = earlier

HeaderSpec == HeaderSpecInit /\ [][HeaderRun \/ AppendRun]_vars


\* ------------------------------------------------------------- the readers
\* float(cell) and datetime.fromisoformat(cell) return for the cells the
\* handler writes and raise for the names of the header row
Parses(cell) == \A k \in 1..Len(Header) : cell # Header[k]

\* read_last: None, or the last row as a reading
read_last(file) ==
    IF ~file.exists \/ file.rows = <<>> THEN None
    ELSE LET last == file.rows[Len(file.rows)]
         IN  IF last = <<>> \/ last[1] = Header[1] THEN None
             ELSE IF Len(last) >= 5 /\ \A k \in 2..5 : Parses(last[k])
             THEN << last[1], last[2], last[3], last[4], last[5] >>
             ELSE None

\* read_tail: the first line is dropped as the header, a row with fewer than
\* five cells or one that does not parse is passed over
read_tail(file) ==
    LET RECURSIVE Out(_)
        Out(n) ==
            IF n <= 1 THEN <<>>
            ELSE LET row == file.rows[n]
                 IN  IF Len(row) < 5 THEN Out(n - 1)
                     ELSE IF \A k \in 1..3 : Parses(row[k])
                     THEN Append(Out(n - 1), << row[1], row[2], row[3] >>)
                     ELSE Out(n - 1)
        out == Out(Len(file.rows))
    IN  SubSeq(out, Max(1, Len(out) - ROLLING_POINTS + 1), Len(out))


\* ------------------------------------------------- discover_targets, alone
\* the advertisements of a busier neighbourhood: both known devices, one of
\* them seen under two spellings of its address, a device matched by its name
\* only, and a stranger
ScanAdverts ==
    Adverts \cup
    { [address |-> ADDR_OUTSIDE, name |-> NoName],
      [address |-> <<"1","1",":","2","2",":","3","3",":","4","4",":","5","5",":","6","6">>,
       name |-> <<"M","J","_","H","T","_","V","1">>] }

\* discover_targets as collector_main calls it, up to the creation of the
\* tasks
DiscoveryNext ==
    \/ \E d \in ScanAdverts : cb(d)
    \/ ScanPoll(TARGET_COUNT)
    \/ Spawn(TARGET_COUNT)

DiscoverySpec == Init /\ [][DiscoveryNext]_vars

\* the scan loop and the return are not held up for ever
FairDiscoverySpec ==
    /\ DiscoverySpec
    /\ WF_vars(ScanPoll(TARGET_COUNT))
    /\ WF_vars(Spawn(TARGET_COUNT))


\* ------------------------------------------------- the decoder, on its own
\* the largest value of two bytes
MaxMv == 65535

\* byte values the payloads are built from
ByteSamples == {0, 9, 46, 171, 255}

\* the frame of a real reading: 23.50 C, 55 %, 2987 mV
SampleFrame == <<46, 9, 55, 171, 11>>

SeqsUpTo(S, n) == UNION {[1..k -> S] : k \in 0..n}

DecodeInputs == SeqsUpTo(ByteSamples, MaxLen) \cup {SampleFrame}

NotCalled == [done |-> FALSE, value |-> None]

PureInit(inputs) ==
    /\ stop = FALSE /\ orch = "Discover" /\ found = <<>> /\ polls = 0
    /\ devices = <<>> /\ pc = <<>> /\ client = <<>> /\ services = <<>>
    /\ subscribed = <<>> /\ files = <<>> /\ clock = 1 /\ fresh = <<>>
    /\ hist = <<>> /\ timer = <<>> /\ sinceStop = 0
    /\ input \in inputs
    /\ output = NotCalled

\* decode_thv(payload) is called and returns
Decode ==
    /\ ~output.done
    /\ output' = [done |-> TRUE, value |-> decode_thv(input)]
    /\ UNCHANGED << stop, orch, found, polls, devices, pc, client, services,
                    subscribed, files, clock, fresh, hist, timer, sinceStop, input >>

DecodeSpec == PureInit(DecodeInputs) /\ [][Decode]_vars

\* battery_percent_from_mv(mv) is called and returns
Battery ==
    /\ ~output.done
    /\ output' = [done |-> TRUE, value |-> <<battery_percent_from_mv(input)>>]
    /\ UNCHANGED << stop, orch, found, polls, devices, pc, client, services,
                    subscribed, files, clock, fresh, hist, timer, sinceStop, input >>

BatterySpec == PureInit(0..MaxMv) /\ [][Battery]_vars


\* ------------------------------------------------ device_task, with time
\* one second goes by. A task whose sleep is over runs before any more time
\* passes; a task that awaits the connection or start_notify lets it pass
Tick ==
    /\ DOMAIN timer # {}
    /\ \A i \in Tasks : SleepOf(pc[i]) > 0 => timer[i] > 0
    /\ timer' = [i \in DOMAIN timer |-> IF timer[i] > 0 THEN timer[i] - 1 ELSE 0]
    /\ sinceStop' = IF stop THEN Min(sinceStop + 1, RECONNECT_DELAY_SECONDS + 1) ELSE 0
    /\ UNCHANGED << stop, orch, found, polls, devices, pc, client, services,
                    subscribed, files, clock, fresh, hist, input, output >>

\* collector_main awaits gather with one task per device, each past its
\* header step and about to connect
TimedInit ==
    /\ stop = FALSE /\ orch = "Gather" /\ found = <<>> /\ polls = 0
    /\ \E n \in 1..TARGET_COUNT :
         /\ devices \in [1..n -> {d \in Adverts : match_target(d.name, d.address)}]
         /\ \A i, j \in 1..n : i # j => devices[i] # devices[j]
         /\ pc = [i \in 1..n |-> "Connecting"]
         /\ client = [i \in 1..n |-> "none"]
         /\ services = [i \in 1..n |-> NoServices]
         /\ subscribed = [i \in 1..n |-> FALSE]
         /\ fresh = [i \in 1..n |-> TRUE]
         /\ hist = [i \in 1..n |-> <<>>]
         /\ timer = [i \in 1..n |-> 0]
    /\ files = [p \in {friendly_csv_path_for_addr(Normalize(devices[i].address)) :
                          i \in DOMAIN devices} |-> HeaderInit(NoFile)]
    /\ clock = 1 /\ sinceStop = 0 /\ input = <<>> /\ output = <<>>

TimedNext ==
    \/ SetStop
    \/ Tick
    \/ \E i \in Tasks : ConnectOK(i)
    \/ \E i \in Tasks : ConnectFail(i)
    \/ \E i \in Tasks : Verify(i)
    \/ \E i \in Tasks : SubscribeOK(i)
    \/ \E i \in Tasks : SubscribeFail(i)
    \/ \E i \in Tasks : ListenPoll(i)
    \/ \E i \in Tasks : BackoffDone(i)

TimedSpec == TimedInit /\ [][TimedNext]_vars

\* ------------------------------------------------------------------ claims
TaskIds == 1..TARGET_COUNT

\* C1: when the link drops while a task is Listening and stop is not set, the
\* task leaves Listening (for Backoff, then Connecting): it does not stay in
\* Listening for ever on a dead link.
C1_DeadLinkLeavesListening ==
    \A i \in TaskIds :
        (i \in Tasks /\ pc[i] = "Listening" /\ client[i] = "dropped" /\ ~stop)
            ~> (stop \/ (i \in Tasks /\ pc[i] # "Listening"))

\* C2: a task has ended only if the stop signal has been raised.
C2_EndsOnlyOnStop == \A i \in Tasks : Terminated(i) => stop

\* C3: while stop is unset, a task in the Connecting/Backoff cycle stays in
\* it or goes on to Verifying; no step takes it to its end.
C3_RetriesWithoutEnd ==
    [][ \A i \in Tasks :
          (~stop' /\ pc[i] \in {"Connecting", "Backoff"})
              => pc'[i] \in {"Connecting", "Backoff", "Verifying"} ]_vars

\* C4: once stop is set, every task that was created reaches its end, and a
\* task that has ended takes no further step (no connection starts after it).
C4_StopReachesEnd ==
    /\ \A i \in TaskIds : (stop /\ i \in Tasks) ~> (i \in Tasks /\ Terminated(i))
    /\ [][ \A i \in Tasks :
             Terminated(i) => /\ pc'[i] = pc[i]
                              /\ client'[i] = "none"
                              /\ subscribed'[i] = FALSE ]_vars

\* C4 witness: stop was raised while two tasks ran, one of which had been
\* listening, and both have returned.
C4_Witness ==
    /\ stop /\ Len(pc) = 2
    /\ \A i \in Tasks : pc[i] = "Stopped"
    /\ \E i \in Tasks : hist[i] # <<>>

\* what C5 requires of a session's GATT table: a characteristic whose
\* identifier is the expected UUID and that can notify or indicate
ExpectedCharIn(table) ==
    \E s \in table : \E ch \in s :
        /\ Lower(ch.uuid) = Lower(UUID_TH_NOTIFY)
        /\ ch.properties \cap {"notify", "indicate"} # {}

\* C5: a task is subscribing, subscribed or listening only in a session whose
\* table holds the expected characteristic; a task that leaves Verifying with
\* a table without it goes to Backoff (or ends, if stop is set or the task is
\* cancelled), closes the session and has not subscribed.
C5_SubscribesOnlyVerified ==
    [][ \A i \in DOMAIN pc' :
          /\ (pc'[i] \in {"Subscribing", "Listening"} \/ subscribed'[i])
                => ExpectedCharIn(services'[i])
          /\ (i \in Tasks /\ pc[i] = "Verifying" /\ ~ExpectedCharIn(services[i])
                /\ pc'[i] # "Verifying")
                => /\ pc'[i] \in {IF stop THEN "Stopped" ELSE "Backoff", "Cancelled"}
                   /\ ~subscribed'[i] /\ client'[i] = "none" ]_vars

\* C5 witness: a task listens on a subscription made after verification.
C5_Witness ==
    \E i \in Tasks : pc[i] = "Listening" /\ subscribed[i] /\ hist[i] # <<>>

\* C6: a failure in one task never makes collector_main fail, and never ends
\* another task.
C6_FailureStaysLocal ==
    /\ orch # "Failed"
    /\ \A i \in Tasks : pc[i] # "Cancelled"

\* C7: collector_main creates exactly one task per discovered device, and
\* it has returned from gather only if every task has returned.
C7_ReturnsAfterAllStopped ==
    /\ orch \in {"Gather", "Returned", "Failed"} => DOMAIN pc = DOMAIN devices
    /\ (orch = "Returned" /\ Len(devices) >= 1) => \A i \in Tasks : pc[i] = "Stopped"

\* C7 witness: collector_main has returned after two tasks ran.
C7_Witness == orch = "Returned" /\ Len(devices) = 2 /\ Len(pc) = 2

Last(seq) == seq[Len(seq)]

\* task i has just handled one more notification
Handled(i) == i \in DOMAIN hist' /\ Len(hist'[i]) = Len(hist[i]) + 1

\* C8: a notification too short to decode leaves the task Listening and the
\* files as they were.
C8_UndecodedIsSkipped ==
    [][ \A i \in Tasks :
          (Handled(i) /\ Len(Last(hist'[i])[2]) < 5)
              => /\ pc[i] = "Listening" /\ pc'[i] = "Listening"
                 /\ subscribed'[i] /\ client'[i] = client[i]
                 /\ files' = files ]_vars

\* C8 witness: a task handled an undecodable notification and then wrote the
\* reading of the next one.
C8_Witness ==
    \E i \in Tasks :
        /\ Len(hist[i]) = 2
        /\ Len(hist[i][1][2]) < 5
        /\ hist[i][2][3] = "written"
        /\ Last(files[csv_path(i)].rows)[1] = hist[i][2][1]

\* C9: a failed append leaves the files as they were and the task Listening,
\* and the reading never shows up in a file afterwards.
C9_WriteFailureDropsReading ==
    [][ \A i \in Tasks :
          /\ (Handled(i) /\ Last(hist'[i])[3] = "write failed")
                => /\ pc[i] = "Listening" /\ pc'[i] = "Listening"
                   /\ subscribed'[i] /\ client'[i] = client[i]
                   /\ files' = files
          /\ \A k \in 1..Len(hist[i]) :
                hist[i][k][3] = "write failed"
                    => \A p \in DOMAIN files' : \A n \in 1..Len(files'[p].rows) :
                          files'[p].rows[n][1] # hist[i][k][1] ]_vars

\* C9 witness: a task failed to append a reading and appended the next one.
C9_Witness ==
    \E i \in Tasks :
        /\ Len(hist[i]) = 2
        /\ hist[i][1][3] = "write failed"
        /\ hist[i][2][3] = "written"
        /\ Last(files[csv_path(i)].rows)[1] = hist[i][2][1]

\* C10: if csv_path was absent when the task started and every notification
\* so far decoded and was written, the file is the header followed by one
\* row per notification, in the order they arrived.
C10_FreshLogIsHeaderPlusRows ==
    \A i \in Tasks :
        ( /\ fresh[i] /\ pc[i] \notin {"Start", "Failed"}
          /\ \A k \in 1..Len(hist[i]) : Len(hist[i][k][2]) >= 5 /\ hist[i][k][3] = "written" )
        => /\ files[csv_path(i)].exists
           /\ Len(files[csv_path(i)].rows) = Len(hist[i]) + 1
           /\ files[csv_path(i)].rows =
                <<Header>> \o [k \in 1..Len(hist[i]) |->
                                 Row(hist[i][k][1], decode_thv(hist[i][k][2]))]

\* C10 witness: two readings were written to a file the task created.
C10_Witness ==
    \E i \in Tasks :
        /\ fresh[i] /\ pc[i] = "Listening"
        /\ Len(hist[i]) = 2
        /\ \A k \in 1..2 : hist[i][k][3] = "written"
        /\ Len(files[csv_path(i)].rows) = 3

\* C11: once a task is past the header step of device_task, its log file
\* starts with the header row, whatever the path held before: nothing, an
\* empty file or an earlier log
C11_HeaderIsFirstLine ==
    \A i \in Tasks :
        pc[i] \in Active \cup {"Stopped", "Cancelled"} =>
            /\ files[csv_path(i)].rows # <<>>
            /\ files[csv_path(i)].rows[1] = Header

\* the header rows in a file
HeaderLines(file) == Cardinality({n \in 1..Len(file.rows) : file.rows[n] = Header})

\* the rows appended so far, in order
Appended(ops) ==
    LET at == {k \in 1..Len(ops) : ops[k].op = "append"}
        RECURSIVE Rows(_)
        Rows(k) == IF k = 0 THEN <<>>
                   ELSE IF k \in at THEN Append(Rows(k - 1), ops[k].row)
                   ELSE Rows(k - 1)
    IN  Rows(Len(ops))

\* the header step has run to its end at least once
HeaderRan == \E k \in 1..Len(input.ops) : input.ops[k].op = "header"

\* C12: however often the header step runs on a path, with appends in
\* between, the file holds exactly one header row, every row that was in it or
\* was appended is still there in order, and two runs on a fresh path leave
\* exactly one line.
C12_ExactlyOneHeader ==
    HeaderRan =>
        /\ HeaderLines(output) = 1
        /\ output.rows[1] = Header
        /\ \E base \in {input.first.rows, <<Header>>} :
              output.rows = base \o Appended(input.ops)
        /\ (~input.first.exists /\ Appended(input.ops) = <<>>) => Len(output.rows) = 1

\* C13: whenever a reader opens a log file, between any two steps of the
\* tasks, every line in it is whole: read_tail passes over no line after the
\* first and returns them in order, and read_last returns the cells of the
\* last row (nothing for an empty file or a bare header).
C13_ReaderSeesWholeLines ==
    \A p \in DOMAIN files :
        LET rows == files[p].rows
        IN  /\ \A n \in 1..Len(rows) : Len(rows[n]) = Len(Header)
            /\ read_tail(files[p]) =
                 [k \in 1..Max(0, Len(rows) - 1) |->
                     << rows[k + 1][1], rows[k + 1][2], rows[k + 1][3] >>]
            /\ read_last(files[p]) =
                 IF rows = <<>> \/ Last(rows) = Header THEN None ELSE Last(rows)

\* C13 witness: a reader finds the row a listening task has just appended.
C13_Witness ==
    \E i \in Tasks :
        /\ pc[i] = "Listening" /\ hist[i] # <<>>
        /\ Last(hist[i])[3] = "written"
        /\ read_last(files[csv_path(i)]) # None
        /\ read_last(files[csv_path(i)])[1] = Last(hist[i])[1]
        /\ Len(read_tail(files[csv_path(i)])) >= 1

\* C14: the dict found holds at most one entry per normalized address
\* (hyphens to colons, upper case), keyed by it, and every entry is of a
\* device that match_target accepts, by known address or by keyword in the
\* name.
C14_OneEntryPerAddress ==
    /\ \A k, l \in 1..Len(found) :
          k # l => Upper(Replace(found[k].value.address, "-", ":"))
                      # Upper(Replace(found[l].value.address, "-", ":"))
    /\ \A k \in 1..Len(found) :
          LET d == found[k].value
          IN  /\ found[k].key = Upper(Replace(d.address, "-", ":"))
              /\ \/ found[k].key \in KNOWN_ADDRS
                 \/ \E kw \in TARGET_NAME_KEYWORDS : Contains(d.name, kw)

\* C14 witness: three devices are in found, one under the hyphenated
\* lower-case spelling of its address and one matched by its name only.
C14_Witness ==
    /\ Len(found) = 3
    /\ \E k \in 1..Len(found) : found[k].value.address # found[k].key
    /\ \E k \in 1..Len(found) : found[k].key \notin KNOWN_ADDRS

\* C15: discover_targets ends; it returns the first matches found, at most
\* TARGET_COUNT of them; and the scan loop never sleeps again once
\* TARGET_COUNT devices are in found.
C15_ScanEndsWithAtMostWant ==
    /\ <>(orch \in {"Gather", "Returned"})
    /\ [](Len(devices) <= TARGET_COUNT)
    /\ [][ /\ polls' > polls => Len(found) < TARGET_COUNT
           /\ (orch = "ScanStop" /\ orch' # "ScanStop") =>
                 /\ Len(devices') = Min(TARGET_COUNT, Len(found))
                 /\ \A k \in 1..Len(devices') : devices'[k] = found[k].value ]_vars

\* C15 witness: the scan loop has ended with more matches in found than
\* discover_targets is to return.
C15_Witness == orch = "ScanStop" /\ Len(found) > TARGET_COUNT

\* C19: the devices returned have pairwise distinct normalized addresses,
\* each has exactly one task, and no two tasks have the same csv_path.
C19_OneWriterPerFile ==
    /\ orch = "Gather" => DOMAIN pc = DOMAIN devices
    /\ \A i, j \in Tasks :
          i # j => /\ addr_colon(i) # addr_colon(j)
                   /\ csv_path(i) # csv_path(j)

\* C19 witness: two tasks were created, for the two known devices.
C19_Witness ==
    /\ orch = "Gather" /\ Len(pc) = 2
    /\ {addr_colon(i) : i \in Tasks} = KNOWN_ADDRS

\* C16: decode_thv returns None for every payload shorter than five bytes;
\* for any longer one it returns, whatever the values, bytes 0-1 little-endian
\* as hundredths of a degree, byte 2 as humidity and bytes 3-4 little-endian
\* as millivolts; the frame 2E 09 37 AB 0B gives 23.50 C, 55 %, 2987 mV, 89 %.
C16_DecodesLayout ==
    output.done =>
        /\ Len(input) < 5 => output.value = None
        /\ Len(input) >= 5 =>
              /\ Len(output.value) = 4
              /\ output.value[1] = input[1] + 256 * input[2]
              /\ output.value[2] = input[3]
              /\ output.value[3] = input[4] + 256 * input[5]
        /\ input = <<46, 9, 55, 171, 11>> => output.value = <<2350, 55, 2987, 89>>

\* C16 witness: the frame of the real reading has been decoded.
C16_Witness ==
    output.done /\ input = <<46, 9, 55, 171, 11>> /\ output.value # None

\* C17: for every voltage of 16 bits battery_percent_from_mv returns an
\* integer from 0 to 100, 0 up to 2100 mV and 100 from 3100 mV, and never less
\* than for the voltage one millivolt lower.
C17_BatteryClampedMonotone ==
    output.done =>
        /\ output.value[1] \in 0..100
        /\ input <= 2100 => output.value[1] = 0
        /\ input >= 3100 => output.value[1] = 100
        /\ input > 0 => battery_percent_from_mv(input - 1) <= output.value[1]

\* C17 witness: a voltage half way up the range gives 50.
C17_Witness == output.done /\ input = 2600 /\ output.value = <<50>>

\* C18: a task that is in Backoff when stop is raised has left Backoff
\* within one poll interval of the stop: it does not wait out the rest of the
\* reconnect delay.
C18_BackoffEndsEarlyOnStop ==
    \A i \in Tasks : (stop /\ pc[i] = "Backoff") => sinceStop <= POLL_SECONDS

\* the states of a task inside `async with BleakClient(...)`
InSession == {"Verifying", "Subscribing", "Listening"}

\* C20: a task holds a link session only inside its session states (none in
\* Backoff, none once it has ended) and a subscription only on a session; a
\* session is opened only by a connecting task that holds none; every step
\* out of the session states leaves the link closed; and a row is appended to
\* a log file only by the handler of a task that is Listening on a live link.
C20_SessionClosedOutsideListening ==
    /\ [](\A i \in Tasks :
            /\ client[i] # "none" => pc[i] \in InSession
            /\ subscribed[i] => client[i] # "none")
    /\ [][ \A i \in Tasks :
             /\ (client'[i] = "connected" /\ client[i] # "connected")
                   => (client[i] = "none" /\ pc[i] = "Connecting")
             /\ (pc[i] \in InSession /\ pc'[i] \notin InSession)
                   => (client'[i] = "none" /\ ~subscribed'[i])
             /\ (pc[i] # "Start" /\ files'[csv_path(i)] # files[csv_path(i)])
                   => /\ pc[i] = "Listening" /\ client[i] = "connected"
                      /\ Handled(i) ]_vars

\* C20 witness: one task is in Backoff without a session while the other
\* listens on its session and has had a row appended.
C20_Witness ==
    \E i, j \in Tasks :
        /\ pc[i] = "Backoff" /\ client[i] = "none" /\ ~subscribed[i]
        /\ pc[j] = "Listening" /\ client[j] = "connected"
        /\ \E k \in 1..Len(hist[j]) : hist[j][k][3] = "written"

====
